---- MODULE Spec2Model ----
(***************************************************************************)
(* Model of src/sms-optin.js: the SMS opt-in modal controller.             *)
(*                                                                         *)
(* The module-level variables of the script and the parts of the document  *)
(* it reads and writes (class markers, attributes, field values, the       *)
(* active element, pending setTimeout callbacks) are the state.  Every     *)
(* listener registered by setupEventListeners and every function exposed   *)
(* on window.SMSOptIn is one action.  Strings are sequences of one-        *)
(* character strings so that trim, digit stripping and the e-mail pattern  *)
(* are computed character by character.                                    *)
(***************************************************************************)
EXTENDS Integers, Sequences, FiniteSets, TLC

VARIABLES
  missing,            \* required elements absent from the document (fixed per run)
  closeDisabled,      \* the close control carries the disabled attribute
  isOpen,             \* backdrop.classList.contains('is-open')
  scrollLock,         \* document.body.style.overflow = 'hidden'
  ariaHidden,         \* main content has aria-hidden="true"
  openerBtn,          \* let openerBtn
  focusableElements,  \* let focusableElements
  firstFocusable,     \* let firstFocusable
  lastFocusable,      \* let lastFocusable
  value,              \* input.value of #optin-phone / #optin-email
  error,              \* input.classList.contains('error')
  msgShow,            \* sibling .optin-error-msg has class 'show'
  msgText,            \* sibling .optin-error-msg textContent
  success,            \* formPanel.classList.contains('success')
  focus,              \* document.activeElement
  timers,             \* pending setTimeout callbacks, in scheduling order
  defaultPrevented,   \* the last dispatched event had preventDefault() called
  pendingDefault,     \* default action of a Tab keydown the browser still has to perform
  lastEvent,          \* history: the event or call handled by the last step
  openedBy            \* history: the element that triggered the current open (Null while closed)

vars == << missing, closeDisabled, isOpen, scrollLock, ariaHidden, openerBtn,
           focusableElements, firstFocusable, lastFocusable, value, error,
           msgShow, msgText, success, focus, timers, defaultPrevented,
           pendingDefault, lastEvent, openedBy >>

-----------------------------------------------------------------------------
(* Bounds and program constants *)

MaxTimers == 2          \* pending setTimeout callbacks kept at once
MaxPhoneLen == 11       \* longest phone string drawn for the validator check
MaxEmailLen == 7        \* longest e-mail string drawn for the validator check

FocusDelay == 50        \* setTimeout(..., 50) in openModal
ResetDelay == 300       \* setTimeout(..., 300) in closeModal
MinPhoneDigits == 10    \* digitsOnly.length >= 10

-----------------------------------------------------------------------------
(* The document *)

Null == "null"
Body == "body"

\* Elements looked up by init(); any of them may be absent from the page.
Required == {"backdrop", "modal", "closeBtn", "form", "formPanel"}
DomConfigs == { {}, {"backdrop"}, {"modal"}, {"form"} }

Has(el) == el \notin missing

\* Buttons carrying [data-optin-trigger]; they live outside the dialog.
Triggers == {"t1", "t2"}
\* What host code may hand to SMSOptIn.open().
OpenArgs == Triggers \cup {Null}

Fields == {"phone", "email"}
\* Focusable content of the dialog in document order.
DialogOrder == << "close", "phone", "email", "submit" >>

\* element.focus() has an effect only on an element that exists and is enabled.
Focusable(el) ==
  \/ el \in Triggers
  \/ el = "close" /\ Has("closeBtn") /\ ~closeDisabled
  \/ el \in {"phone", "email", "submit"} /\ Has("form")

\* modal.querySelectorAll(focusableSelectors)
DialogFocusables == SelectSeq(DialogOrder, Focusable)

\* init() returned before setupEventListeners() when backdrop or modal is absent.
Listening == Has("backdrop") /\ Has("modal")

-----------------------------------------------------------------------------
(* Strings *)

Digits == {"0", "1", "2", "3", "4", "5", "6", "7", "8", "9"}
IsSpace(c) == c \in {" "}

SetMin(S) == CHOOSE x \in S : \A y \in S : x <= y
SetMax(S) == CHOOSE x \in S : \A y \in S : x >= y

\* String.prototype.trim
Trim(s) ==
  LET keep == { i \in 1..Len(s) : ~IsSpace(s[i]) }
  IN  IF keep = {} THEN << >> ELSE SubSeq(s, SetMin(keep), SetMax(keep))

IsDigit(c) == c \in Digits

\* Variant: the length of the value is taken instead of its digit count.
isValidPhone_anyChar(phone) ==
  Len(phone) >= MinPhoneDigits

isValidPhone(phone) ==
  LET digitsOnly == SelectSeq(phone, IsDigit)
  IN  Len(digitsOnly) >= MinPhoneDigits

\* Variant: the pattern lacks the dot and the label after it.
isValidEmail_noDot(email) ==
  \E i \in 1..Len(email) :
    /\ email[i] = "@"
    /\ \A k \in 1..(i - 1) : email[k] \notin {" ", "@"}
    /\ \A k \in (i + 1)..Len(email) : email[k] \notin {" ", "@"}
    /\ 1 < i /\ i < Len(email)

\* [^\s@]+ over s[a..b]
Label(s, a, b) == a <= b /\ \A k \in a..b : ~IsSpace(s[k]) /\ s[k] # "@"

\* /^[^\s@]+@[^\s@]+\.[^\s@]+$/.test(email)
isValidEmail(email) ==
  \E i \in 1..Len(email) : \E j \in 1..Len(email) :
    /\ i < j
    /\ email[i] = "@"
    /\ email[j] = "."
    /\ Label(email, 1, i - 1)
    /\ Label(email, i + 1, j - 1)
    /\ Label(email, j + 1, Len(email))

Empty == << >>
PhoneGood == << "5", "5", "5", "-", "1", "2", "3", "-", "4", "5", "6", "7" >>
EmailGood == << "x", "@", "y", ".", "c", "o", "m" >>

\* Values a user types into the fields: the field is filled in or emptied.
Typed(f) == IF f = "phone" THEN {Empty, PhoneGood} ELSE {Empty, EmailGood}

PhoneRequired == "Phone number is required"
PhoneInvalid == "Please enter a valid US phone number (10+ digits)"
EmailRequired == "Email is required"
EmailInvalid == "Please enter a valid email address"

-----------------------------------------------------------------------------
(* The program state as one record, threaded through the functions *)

Cur ==
  [ isOpen |-> isOpen, scrollLock |-> scrollLock, ariaHidden |-> ariaHidden,
    openerBtn |-> openerBtn, focusableElements |-> focusableElements,
    firstFocusable |-> firstFocusable, lastFocusable |-> lastFocusable,
    value |-> value, error |-> error, msgShow |-> msgShow, msgText |-> msgText,
    success |-> success, focus |-> focus, timers |-> timers,
    defaultPrevented |-> defaultPrevented ]

\* The state at the start of an event dispatch: nothing prevented yet.
Ev == [ Cur EXCEPT !.defaultPrevented = FALSE ]

Commit(s) ==
  /\ Len(s.timers) <= MaxTimers
  /\ isOpen' = s.isOpen
  /\ scrollLock' = s.scrollLock
  /\ ariaHidden' = s.ariaHidden
  /\ openerBtn' = s.openerBtn
  /\ focusableElements' = s.focusableElements
  /\ firstFocusable' = s.firstFocusable
  /\ lastFocusable' = s.lastFocusable
  /\ value' = s.value
  /\ error' = s.error
  /\ msgShow' = s.msgShow
  /\ msgText' = s.msgText
  /\ success' = s.success
  /\ focus' = s.focus
  /\ timers' = s.timers
  /\ defaultPrevented' = s.defaultPrevented

\* History of the opener: kept while the modal stays open, dropped once it closes.
Opened(s, by) == openedBy' = IF s.isOpen THEN by ELSE Null
Same(s) == Opened(s, openedBy)

-----------------------------------------------------------------------------
(* Functions of the script *)

showError(s, input, message) ==
  [ s EXCEPT !.error[input] = TRUE,
             !.msgText[input] = message,
             !.msgShow[input] = TRUE ]

\* Variant: only the message is hidden, the error class stays on the input.
clearError_keepsFlag(s, input) ==
  [ s EXCEPT !.msgShow[input] = FALSE ]

clearError(s, input) ==
  [ s EXCEPT !.error[input] = FALSE, !.msgShow[input] = FALSE ]

validatePhone(s) ==
  LET v == Trim(s.value["phone"])
  IN  IF v = Empty
        THEN [ st |-> showError(s, "phone", PhoneRequired), ok |-> FALSE ]
      ELSE IF ~isValidPhone(v)
        THEN [ st |-> showError(s, "phone", PhoneInvalid), ok |-> FALSE ]
      ELSE [ st |-> clearError(s, "phone"), ok |-> TRUE ]

validateEmail(s) ==
  LET v == Trim(s.value["email"])
  IN  IF v = Empty
        THEN [ st |-> showError(s, "email", EmailRequired), ok |-> FALSE ]
      ELSE IF ~isValidEmail(v)
        THEN [ st |-> showError(s, "email", EmailInvalid), ok |-> FALSE ]
      ELSE [ st |-> clearError(s, "email"), ok |-> TRUE ]

\* The blur listeners of setupEventListeners, run when focus leaves a field.
onBlur(s, el) ==
  IF ~(Listening /\ Has("form")) THEN s
  ELSE IF el = "phone" THEN validatePhone(s).st
  ELSE IF el = "email" THEN validateEmail(s).st
  ELSE s

\* element.focus(): the element losing focus gets its blur event first.
focusEl(s, el) ==
  IF ~Focusable(el) \/ s.focus = el THEN s
  ELSE [ onBlur(s, s.focus) EXCEPT !.focus = el ]

setTimeout(s, kind) == [ s EXCEPT !.timers = Append(@, kind) ]

\* Variant: the first boundary is read from the end of the list.
updateFocusableElements_lastAsFirst(s) ==
  IF ~Has("modal") THEN s
  ELSE LET els == DialogFocusables
       IN  [ s EXCEPT !.focusableElements = els,
                      !.firstFocusable = IF els = << >> THEN Null ELSE els[Len(els)],
                      !.lastFocusable = IF els = << >> THEN Null ELSE els[Len(els)] ]

updateFocusableElements(s) ==
  IF ~Has("modal") THEN s
  ELSE LET els == DialogFocusables
       IN  [ s EXCEPT !.focusableElements = els,
                      !.firstFocusable = IF els = << >> THEN Null ELSE els[1],
                      !.lastFocusable = IF els = << >> THEN Null ELSE els[Len(els)] ]

\* Variant: the aria-hidden marking of the main content is left out.
openModal_noAria(s) ==
  IF ~Has("backdrop") THEN s
  ELSE LET s1 == [ s EXCEPT !.isOpen = TRUE, !.scrollLock = TRUE ]
           s2 == updateFocusableElements(s1)
       IN  setTimeout(s2, "focus")

\* Variant: the focus set is computed on the first open only and then cached.
openModal_cached(s) ==
  IF ~Has("backdrop") THEN s
  ELSE LET s1 == [ s EXCEPT !.isOpen = TRUE, !.scrollLock = TRUE ]
           s2 == IF s1.focusableElements = << >>
                   THEN updateFocusableElements(s1)
                   ELSE s1
           s3 == setTimeout(s2, "focus")
       IN  [ s3 EXCEPT !.ariaHidden = TRUE ]

openModal(s) ==
  IF ~Has("backdrop") THEN s
  ELSE LET s1 == [ s EXCEPT !.isOpen = TRUE, !.scrollLock = TRUE ]
           s2 == updateFocusableElements(s1)
           s3 == setTimeout(s2, "focus")
       IN  [ s3 EXCEPT !.ariaHidden = TRUE ]

closeModal(s) ==
  IF ~Has("backdrop") THEN s
  ELSE LET s1 == [ s EXCEPT !.isOpen = FALSE, !.scrollLock = FALSE,
                            !.ariaHidden = FALSE ]
           s2 == IF s1.openerBtn # Null THEN focusEl(s1, s1.openerBtn) ELSE s1
       IN  setTimeout(s2, "reset")

\* Variant: the 'show' class of the error messages is not removed.
resetForm_keepsMessages(s) ==
  LET s1 == IF Has("form")
              THEN [ s EXCEPT !.value = [ f \in Fields |-> Empty ],
                              !.error = [ f \in Fields |-> FALSE ] ]
              ELSE s
  IN  IF Has("formPanel") THEN [ s1 EXCEPT !.success = FALSE ] ELSE s1

\* Variant: form.reset() is left out, so the typed values stay.
resetForm_keepsValues(s) ==
  LET s1 == IF Has("form")
              THEN [ s EXCEPT !.error = [ f \in Fields |-> FALSE ],
                              !.msgShow = [ f \in Fields |-> FALSE ] ]
              ELSE s
  IN  IF Has("formPanel") THEN [ s1 EXCEPT !.success = FALSE ] ELSE s1

\* Variant: the reset does nothing while the modal is open.
resetForm_onlyWhenClosed(s) ==
  IF s.isOpen THEN s
  ELSE LET s1 == IF Has("form")
                   THEN [ s EXCEPT !.value = [ f \in Fields |-> Empty ],
                                   !.error = [ f \in Fields |-> FALSE ],
                                   !.msgShow = [ f \in Fields |-> FALSE ] ]
                   ELSE s
       IN  IF Has("formPanel") THEN [ s1 EXCEPT !.success = FALSE ] ELSE s1

resetForm(s) ==
  LET s1 == IF Has("form")
              THEN [ s EXCEPT !.value = [ f \in Fields |-> Empty ],
                              !.error = [ f \in Fields |-> FALSE ],
                              !.msgShow = [ f \in Fields |-> FALSE ] ]
              ELSE s
  IN  IF Has("formPanel") THEN [ s1 EXCEPT !.success = FALSE ] ELSE s1

showSuccess(s) ==
  IF Has("formPanel") THEN [ s EXCEPT !.success = TRUE ] ELSE s

\* form.querySelector('.optin-input.error'): first in document order.
firstError(s) ==
  IF s.error["phone"] THEN "phone"
  ELSE IF s.error["email"] THEN "email"
  ELSE Null

\* Variant: e-mail validation is skipped once phone validation failed.
handleSubmit_shortCircuit(s) ==
  LET s0 == [ s EXCEPT !.defaultPrevented = TRUE ]
      p == validatePhone(s0)
      e == IF p.ok THEN validateEmail(p.st) ELSE [ st |-> p.st, ok |-> FALSE ]
      isValid == p.ok /\ e.ok
  IN  IF ~isValid
        THEN IF firstError(e.st) # Null THEN focusEl(e.st, firstError(e.st))
                                        ELSE e.st
        ELSE showSuccess(e.st)

\* Variant: one valid field is enough for success.
handleSubmit_either(s) ==
  LET s0 == [ s EXCEPT !.defaultPrevented = TRUE ]
      p == validatePhone(s0)
      e == validateEmail(p.st)
      isValid == p.ok \/ e.ok
  IN  IF ~isValid
        THEN IF firstError(e.st) # Null THEN focusEl(e.st, firstError(e.st))
                                        ELSE e.st
        ELSE showSuccess(e.st)

\* Variant: a failed submit takes the success marker back.
handleSubmit_clearsSuccess(s) ==
  LET s0 == [ s EXCEPT !.defaultPrevented = TRUE ]
      p == validatePhone(s0)
      e == validateEmail(p.st)
      isValid == p.ok /\ e.ok
  IN  IF ~isValid
        THEN [ (IF firstError(e.st) # Null THEN focusEl(e.st, firstError(e.st))
                                           ELSE e.st)
               EXCEPT !.success = FALSE ]
        ELSE showSuccess(e.st)

handleSubmit(s) ==
  LET s0 == [ s EXCEPT !.defaultPrevented = TRUE ]
      p == validatePhone(s0)
      e == validateEmail(p.st)
      isValid == p.ok /\ e.ok
  IN  IF ~isValid
        THEN IF firstError(e.st) # Null THEN focusEl(e.st, firstError(e.st))
                                        ELSE e.st
        ELSE showSuccess(e.st)

\* Variant: Shift+Tab on the first element is not wrapped.
handleKeydown_noShiftWrap(s, key, shiftKey) ==
  IF ~s.isOpen THEN s
  ELSE IF key = "Escape"
    THEN closeModal([ s EXCEPT !.defaultPrevented = TRUE ])
  ELSE IF key = "Tab"
    THEN IF Len(s.focusableElements) = 0 THEN s
         ELSE IF shiftKey
           THEN s
           ELSE IF s.focus = s.lastFocusable
                  THEN focusEl([ s EXCEPT !.defaultPrevented = TRUE ], s.firstFocusable)
                  ELSE s
  ELSE s

\* Variant: the handler does not check the 'is-open' class first.
handleKeydown_noOpenGuard(s, key, shiftKey) ==
  IF key = "Escape"
    THEN closeModal([ s EXCEPT !.defaultPrevented = TRUE ])
  ELSE IF key = "Tab"
    THEN IF Len(s.focusableElements) = 0 THEN s
         ELSE IF shiftKey
           THEN IF s.focus = s.firstFocusable
                  THEN focusEl([ s EXCEPT !.defaultPrevented = TRUE ], s.lastFocusable)
                  ELSE s
           ELSE IF s.focus = s.lastFocusable
                  THEN focusEl([ s EXCEPT !.defaultPrevented = TRUE ], s.firstFocusable)
                  ELSE s
  ELSE s

\* Variant: Tab on the last element is not wrapped.
handleKeydown_noTabWrap(s, key, shiftKey) ==
  IF ~s.isOpen THEN s
  ELSE IF key = "Escape"
    THEN closeModal([ s EXCEPT !.defaultPrevented = TRUE ])
  ELSE IF key = "Tab"
    THEN IF Len(s.focusableElements) = 0 THEN s
         ELSE IF shiftKey
           THEN IF s.focus = s.firstFocusable
                  THEN focusEl([ s EXCEPT !.defaultPrevented = TRUE ], s.lastFocusable)
                  ELSE s
           ELSE s
  ELSE s

handleKeydown(s, key, shiftKey) ==
  IF ~s.isOpen THEN s
  ELSE IF key = "Escape"
    THEN closeModal([ s EXCEPT !.defaultPrevented = TRUE ])
  ELSE IF key = "Tab"
    THEN IF Len(s.focusableElements) = 0 THEN s
         ELSE IF shiftKey
           THEN IF s.focus = s.firstFocusable
                  THEN focusEl([ s EXCEPT !.defaultPrevented = TRUE ], s.lastFocusable)
                  ELSE s
           ELSE IF s.focus = s.lastFocusable
                  THEN focusEl([ s EXCEPT !.defaultPrevented = TRUE ], s.firstFocusable)
                  ELSE s
  ELSE s

-----------------------------------------------------------------------------
(* Initial state: the script has run init() on a pristine document *)

Init ==
  /\ missing \in DomConfigs
  /\ closeDisabled \in (IF Has("closeBtn") THEN BOOLEAN ELSE {FALSE})
  /\ isOpen = FALSE
  /\ scrollLock = FALSE
  /\ ariaHidden = FALSE
  /\ openerBtn = Null
  /\ focusableElements = << >>
  /\ firstFocusable = Null
  /\ lastFocusable = Null
  /\ value = [ f \in Fields |-> Empty ]
  /\ error = [ f \in Fields |-> FALSE ]
  /\ msgShow = [ f \in Fields |-> FALSE ]
  /\ msgText = [ f \in Fields |-> "" ]
  /\ success = FALSE
  /\ focus = Body
  /\ timers = << >>
  /\ defaultPrevented = FALSE
  /\ pendingDefault = "none"
  /\ lastEvent = "init"
  /\ openedBy = Null

-----------------------------------------------------------------------------
(* Timers.  A callback scheduled earlier with a delay no longer than that of *)
(* a later one runs first; a 50 ms focus callback may overtake a 300 ms      *)
(* reset callback scheduled before it.                                       *)

Delay(kind) == IF kind = "focus" THEN FocusDelay ELSE ResetDelay

CanFire(i) == \A j \in 1..(i - 1) : Delay(timers[j]) > Delay(timers[i])

Remove(seq, i) == SubSeq(seq, 1, i - 1) \o SubSeq(seq, i + 1, Len(seq))

\* Focus moved by the user or by the browser's default action.
nativeFocus(s, el) == [ onBlur(s, s.focus) EXCEPT !.focus = el ]

\* Tab order of the page: the triggers, then the dialog content while shown.
DocOrder == << "t1", "t2" >> \o (IF isOpen THEN DialogFocusables ELSE << >>)

IndexOf(seq, el) == IF \E i \in 1..Len(seq) : seq[i] = el
                      THEN CHOOSE i \in 1..Len(seq) : seq[i] = el
                      ELSE 0

NativeNext(el, back) ==
  LET n == Len(DocOrder)
      i == IndexOf(DocOrder, el)
  IN  IF back THEN (IF i <= 1 THEN DocOrder[n] ELSE DocOrder[i - 1])
              ELSE (IF i = 0 \/ i = n THEN DocOrder[1] ELSE DocOrder[i + 1])

Idle == pendingDefault = "none"

Step(label) ==
  /\ lastEvent' = label
  /\ UNCHANGED << missing, closeDisabled >>

-----------------------------------------------------------------------------
(* Actions: one per listener, public operation, timer callback *)

\* click on a [data-optin-trigger] button
TriggerClick(t) ==
  /\ Idle /\ Listening
  /\ LET s == openModal([ Ev EXCEPT !.defaultPrevented = TRUE, !.openerBtn = t ])
     IN  Commit(s) /\ Opened(s, t)
  /\ Step("triggerClick")
  /\ UNCHANGED pendingDefault

\* window.SMSOptIn.open(opener)
PublicOpen(opener) ==
  /\ Idle
  /\ LET s == openModal(Cur)
     IN  Commit(s) /\ Opened(s, opener)
  /\ Step("open")
  /\ UNCHANGED pendingDefault

\* window.SMSOptIn.close()
PublicClose ==
  /\ Idle
  /\ LET s == closeModal(Cur)
     IN  Commit(s) /\ Same(s)
  /\ Step("close")
  /\ UNCHANGED pendingDefault

\* window.SMSOptIn.reset()
PublicReset ==
  /\ Idle
  /\ LET s == resetForm(Cur)
     IN  Commit(s) /\ Same(s)
  /\ Step("reset")
  /\ UNCHANGED pendingDefault

\* click on #optin-modal-close
CloseClick ==
  /\ Idle /\ Listening
  /\ Has("closeBtn") /\ ~closeDisabled /\ isOpen
  /\ LET s == closeModal(Ev)
     IN  Commit(s) /\ Same(s)
  /\ Step("closeClick")
  /\ UNCHANGED pendingDefault

\* Variant: the handler does not compare the click target with the backdrop.
BackdropClick_anyTarget(target) ==
  /\ Idle /\ Listening
  /\ isOpen
  /\ LET s == closeModal(Ev)
     IN  Commit(s) /\ Same(s)
  /\ Step(IF target = "backdrop" THEN "backdropClick" ELSE "dialogClick")
  /\ UNCHANGED pendingDefault

\* click inside the backdrop: on the backdrop itself or on the dialog
BackdropClick(target) ==
  /\ Idle /\ Listening
  /\ isOpen
  /\ LET s == IF target = "backdrop" THEN closeModal(Ev) ELSE Ev
     IN  Commit(s) /\ Same(s)
  /\ Step(IF target = "backdrop" THEN "backdropClick" ELSE "dialogClick")
  /\ UNCHANGED pendingDefault

\* keydown on the document
Keydown(key, shiftKey) ==
  /\ Idle
  /\ LET s == IF Listening THEN handleKeydown(Ev, key, shiftKey) ELSE Ev
     IN  /\ Commit(s) /\ Same(s)
         /\ pendingDefault' = IF key = "Tab" /\ ~s.defaultPrevented
                                THEN (IF shiftKey THEN "shiftTab" ELSE "tab")
                                ELSE "none"
  /\ Step(IF key = "Tab" /\ shiftKey THEN "ShiftTab" ELSE key)

\* the browser's sequential focus navigation for a Tab that was not prevented
NativeDefault ==
  /\ pendingDefault # "none"
  /\ LET s == nativeFocus(Cur, NativeNext(focus, pendingDefault = "shiftTab"))
     IN  Commit(s) /\ Same(s)
  /\ pendingDefault' = "none"
  /\ Step("nativeTab")

\* the user moves focus with the pointer: into the dialog while it is shown,
\* to a trigger on the page otherwise
UserFocus(el) ==
  /\ Idle
  /\ el # focus
  /\ Focusable(el) /\ (isOpen <=> el \notin Triggers)
  /\ LET s == nativeFocus(Cur, el)
     IN  Commit(s) /\ Same(s)
  /\ Step("focusChange")
  /\ UNCHANGED pendingDefault

\* input event: the user edits the focused field
Input(f, v) ==
  /\ Idle
  /\ Has("form") /\ focus = f
  /\ v # value[f]
  /\ LET s == [ Ev EXCEPT !.value[f] = v ]
         r == IF Listening THEN clearError(s, f) ELSE s
     IN  Commit(r) /\ Same(r)
  /\ Step("input")
  /\ UNCHANGED pendingDefault

\* submit event on #optin-form
Submit ==
  /\ Idle /\ Listening
  /\ Has("form") /\ isOpen
  /\ LET s == handleSubmit(Ev)
     IN  Commit(s) /\ Same(s)
  /\ Step("submit")
  /\ UNCHANGED pendingDefault

\* the callback scheduled by openModal
FocusTimer(i) ==
  /\ Idle
  /\ i \in 1..Len(timers) /\ timers[i] = "focus" /\ CanFire(i)
  /\ LET s == [ Cur EXCEPT !.timers = Remove(@, i) ]
     IN  \E shown \in (IF isOpen THEN {TRUE} ELSE BOOLEAN) :
           LET r == IF firstFocusable # Null /\ shown
                      THEN focusEl(s, firstFocusable)
                      ELSE s
           IN  Commit(r) /\ Same(r)
  /\ Step("focusTimer")
  /\ UNCHANGED pendingDefault

\* the callback scheduled by closeModal
ResetTimer(i) ==
  /\ Idle
  /\ i \in 1..Len(timers) /\ timers[i] = "reset" /\ CanFire(i)
  /\ LET s == resetForm([ Cur EXCEPT !.timers = Remove(@, i) ])
     IN  Commit(s) /\ Same(s)
  /\ Step("resetTimer")
  /\ UNCHANGED pendingDefault

\* the host page enables or disables the close control between opens
HostToggleClose ==
  /\ Idle
  /\ Has("closeBtn") /\ ~isOpen /\ focus # "close"
  /\ closeDisabled' = ~closeDisabled
  /\ lastEvent' = "host"
  /\ UNCHANGED << missing, isOpen, scrollLock, ariaHidden, openerBtn,
                  focusableElements, firstFocusable, lastFocusable, value,
                  error, msgShow, msgText, success, focus, timers,
                  defaultPrevented, pendingDefault, openedBy >>

Keys == {"Escape", "Tab", "a"}

Next ==
  \/ \E t \in Triggers : TriggerClick(t)
  \/ \E o \in OpenArgs : PublicOpen(o)
  \/ PublicClose
  \/ PublicReset
  \/ CloseClick
  \/ \E target \in {"backdrop", "dialog"} : BackdropClick(target)
  \/ \E key \in Keys : \E shiftKey \in BOOLEAN : Keydown(key, shiftKey)
  \/ NativeDefault
  \/ \E el \in Triggers \cup {"close", "phone", "email", "submit"} : UserFocus(el)
  \/ \E f \in Fields : \E v \in Typed(f) : Input(f, v)
  \/ Submit
  \/ \E i \in 1..MaxTimers : FocusTimer(i)
  \/ \E i \in 1..MaxTimers : ResetTimer(i)
  \/ HostToggleClose

Spec == Init /\ [][Next]_vars

-----------------------------------------------------------------------------
(* Properties *)

\* C1: in every reachable state the body scroll lock is on iff the backdrop
\* carries the open marker, and the main content is aria-hidden iff the
\* backdrop carries the open marker.
C1_LockAndAriaFollowOpen ==
  /\ scrollLock <=> isOpen
  /\ ariaHidden <=> isOpen

\* C1 witness: the modal was opened, used and is still open and locked.
C1_Witness ==
  isOpen /\ scrollLock /\ ariaHidden /\ lastEvent = "submit"

\* C2 (as claimed): when the modal is open and an Escape keydown is handled,
\* the modal is closed afterwards and focus is on the element that triggered
\* the current open, whether that was a trigger click or open(opener).
C2_EscapeReturnsToOpener ==
  [][ (Listening /\ isOpen /\ openedBy # Null /\ lastEvent' = "Escape")
        => (~isOpen' /\ focus' = openedBy) ]_vars

\* The part of the state the script owns or writes (history variables and the
\* per-event preventDefault flag left out).
widget == << isOpen, scrollLock, ariaHidden, openerBtn, focusableElements,
             firstFocusable, lastFocusable, value, error, msgShow, msgText,
             success, focus, timers >>

\* C3 (as claimed): close() while the modal is closed changes no state: focus,
\* pending timers, field values, error flags and success marker stay as they were.
C3_CloseWhenClosedIsNoop ==
  [][ (~isOpen /\ lastEvent' = "close") => UNCHANGED widget ]_vars

-----------------------------------------------------------------------------
(* Open and close without interaction *)

NextC4 ==
  \/ \E t \in Triggers : TriggerClick(t)
  \/ \E o \in OpenArgs : PublicOpen(o)
  \/ PublicClose
  \/ PublicReset
  \/ CloseClick
  \/ BackdropClick("backdrop")
  \/ Keydown("Escape", FALSE)
  \/ \E i \in 1..MaxTimers : FocusTimer(i)
  \/ \E i \in 1..MaxTimers : ResetTimer(i)

\* A pending timer callback is eventually run by the event loop.
TimerFairness ==
  /\ WF_vars(\E i \in 1..MaxTimers : FocusTimer(i))
  /\ WF_vars(\E i \in 1..MaxTimers : ResetTimer(i))

SpecC4 == Init /\ [][NextC4]_vars /\ TimerFairness

Pristine ==
  /\ \A f \in Fields : value[f] = Empty /\ ~error[f] /\ ~msgShow[f]
  /\ ~success

\* C4: from a pristine closed modal, opening and closing with no submit and no
\* typing reaches, once the deferred reset has fired, a state with all fields
\* empty, no error flag, no shown message and no success marker; whenever the
\* modal is closed with no callback pending the form is pristine; and reset()
\* applied to a pristine form changes nothing.
C4_OpenCloseLeavesPristine ==
  /\ []((~isOpen /\ timers = << >>) => Pristine)
  /\ [][ (Pristine /\ lastEvent' = "reset") => UNCHANGED widget ]_vars
  /\ ((\E i \in 1..Len(timers) : timers[i] = "reset")
        ~> (Pristine /\ lastEvent = "resetTimer"))

\* C4 witness: a blur validation caused by closing had shown the phone error,
\* and the deferred reset has removed it.
C4_Witness ==
  /\ ~isOpen /\ timers = << >> /\ lastEvent = "resetTimer"
  /\ Pristine
  /\ msgText["phone"] = PhoneRequired

-----------------------------------------------------------------------------
(* Success state *)

\* C5 (as claimed): once the success marker is set while the modal is open it
\* stays set in every later state until the modal is closed.
C5_SuccessUntilClosed ==
  [][ (success /\ isOpen /\ isOpen') => success' ]_vars

\* C5 (amended): the success marker, once set, is removed only by a reset: the
\* public reset operation or a deferred reset callback scheduled by a close.
C5_SuccessClearedOnlyByReset ==
  [][ (success /\ ~success') => lastEvent' \in {"reset", "resetTimer"} ]_vars

\* C5 witness: the marker set by a submit is still there after later events
\* of the same open cycle.
C5_Witness ==
  success /\ isOpen /\ lastEvent = "ShiftTab"

PhoneOk(v) == Trim(v) # Empty /\ isValidPhone(Trim(v))
EmailOk(v) == Trim(v) # Empty /\ isValidEmail(Trim(v))
BothOk == PhoneOk(value["phone"]) /\ EmailOk(value["email"])
Ok(f) == IF f = "phone" THEN PhoneOk(value[f]) ELSE EmailOk(value[f])

\* C6: on a submit where phone or email validation fails, every invalid field
\* ends with its error flag set and message shown, the success marker is not
\* set by the submit, a field already in error stays in error, and focus ends
\* on the first field in document order that is in error; with phone empty and
\* email valid, phone carries 'Phone number is required', email has no error
\* and focus is on phone.
C6_FailedSubmit ==
  [][ (lastEvent' = "submit" /\ ~BothOk) =>
        /\ \A f \in Fields : ~Ok(f) => (error'[f] /\ msgShow'[f])
        /\ success' = success
        /\ \A f \in Fields : error[f] => error'[f]
        /\ focus' = (IF error'["phone"] THEN "phone" ELSE "email")
        /\ (value["phone"] = Empty /\ EmailOk(value["email"])) =>
              /\ error'["phone"] /\ msgText'["phone"] = PhoneRequired
              /\ ~error'["email"]
              /\ focus' = "phone" ]_vars

\* C6 witness: the submit found the phone valid and the e-mail empty.
C6_Witness ==
  /\ lastEvent = "submit" /\ ~success
  /\ ~error["phone"] /\ value["phone"] = PhoneGood
  /\ error["email"] /\ msgText["email"] = EmailRequired
  /\ focus = "email"

\* C7: a submit sets the success marker iff both values pass validation at that
\* moment, and then no field has an error flag; the marker goes from absent to
\* present only in a submit step that found both fields valid.
C7_SuccessIffBothValid ==
  [][ /\ lastEvent' = "submit" =>
           /\ BothOk => (success' /\ \A f \in Fields : ~error'[f] /\ ~msgShow'[f])
           /\ ~BothOk => success' = success
      /\ (~success /\ success') => (lastEvent' = "submit" /\ BothOk) ]_vars

\* C7 witness: a submit with both fields valid has just set the marker.
C7_Witness ==
  /\ lastEvent = "submit" /\ success
  /\ value["phone"] = PhoneGood /\ value["email"] = EmailGood
  /\ \A f \in Fields : ~error[f]

-----------------------------------------------------------------------------
(* Focus trap *)

\* Everything except the history of the last event and the Tab bookkeeping.
allButKey == << missing, closeDisabled, isOpen, scrollLock, ariaHidden, openerBtn,
                focusableElements, firstFocusable, lastFocusable, value, error,
                msgShow, msgText, success, focus, timers, openedBy >>

\* C8: while the modal is open and the focus set is non-empty, Tab on the last
\* element is prevented and moves focus to the first element, Shift+Tab on the
\* first element is prevented and moves focus to the last; with an empty focus
\* set Tab and Shift+Tab change nothing and prevent nothing.
C8_TabWrap ==
  [][ (Listening /\ isOpen /\ lastEvent' \in {"Tab", "ShiftTab"}) =>
        /\ (Len(focusableElements) >= 1 /\ lastEvent' = "Tab"
              /\ focus = lastFocusable) =>
             (defaultPrevented' /\ pendingDefault' = "none"
                /\ focus' = focusableElements[1])
        /\ (Len(focusableElements) >= 1 /\ lastEvent' = "ShiftTab"
              /\ focus = firstFocusable) =>
             (defaultPrevented' /\ pendingDefault' = "none"
                /\ focus' = focusableElements[Len(focusableElements)])
        /\ Len(focusableElements) = 0 =>
             (~defaultPrevented' /\ UNCHANGED allButKey) ]_vars

\* C8 witness: Shift+Tab on the first of several elements has wrapped to the last.
C8_Witness ==
  /\ isOpen /\ lastEvent = "ShiftTab" /\ defaultPrevented
  /\ Len(focusableElements) > 1
  /\ focus = lastFocusable

-----------------------------------------------------------------------------
(* Setup failure *)

\* C9 (as claimed): when the backdrop or the dialog container is absent at
\* initialization, nothing ever marks the backdrop open, locks scroll or sets
\* aria-hidden, and no pending callback is ever scheduled.
C9_InertAfterSetupFailure ==
  ~Listening => (~isOpen /\ ~scrollLock /\ ~ariaHidden /\ timers = << >>)

-----------------------------------------------------------------------------
(* Phone validation over all short strings *)

\* A digit, a punctuation character and a whitespace character.
PhoneAlphabet == {"5", "-", " "}
PhoneStrings == UNION { [1..n -> PhoneAlphabet] : n \in 0..MaxPhoneLen }

\* The dialog was opened from t1, the e-mail field holds a valid address and
\* the user has typed some string into the phone field.
InitPhone ==
  /\ missing = {}
  /\ closeDisabled = FALSE
  /\ isOpen = TRUE
  /\ scrollLock = TRUE
  /\ ariaHidden = TRUE
  /\ openerBtn = "t1"
  /\ focusableElements = DialogOrder
  /\ firstFocusable = "close"
  /\ lastFocusable = "submit"
  /\ \E str \in PhoneStrings : value = [ f \in Fields |-> IF f = "phone" THEN str ELSE EmailGood ]
  /\ error = [ f \in Fields |-> FALSE ]
  /\ msgShow = [ f \in Fields |-> FALSE ]
  /\ msgText = [ f \in Fields |-> "" ]
  /\ success = FALSE
  /\ focus = "phone"
  /\ timers = << >>
  /\ defaultPrevented = FALSE
  /\ pendingDefault = "none"
  /\ lastEvent = "input"
  /\ openedBy = "t1"

NextPhone == lastEvent = "input" /\ Submit

SpecPhone == InitPhone /\ [][NextPhone]_vars

DigitCount(v) == Cardinality({ i \in 1..Len(v) : v[i] \in Digits })
Blank(v) == \A i \in 1..Len(v) : v[i] = " "

\* C10: phone validation is decided by the digit count alone: with at least 10
\* digit characters it succeeds and leaves no error, whatever punctuation and
\* spaces surround them; with fewer it fails and sets the error flag, with
\* 'Phone number is required' for an empty or whitespace-only value and the
\* rule-specific message otherwise.
C10_PhoneByDigitCount ==
  lastEvent = "submit" =>
    LET v == value["phone"]
    IN  /\ DigitCount(v) >= MinPhoneDigits =>
             (success /\ ~error["phone"] /\ ~msgShow["phone"])
        /\ DigitCount(v) < MinPhoneDigits =>
             /\ ~success /\ error["phone"] /\ msgShow["phone"]
             /\ msgText["phone"] = (IF Blank(v) THEN PhoneRequired ELSE PhoneInvalid)

\* C10 witness: ten digits with a dash among them were accepted.
C10_Witness ==
  /\ lastEvent = "submit" /\ success /\ ~error["phone"]
  /\ Len(value["phone"]) = MaxPhoneLen
  /\ value["phone"][4] = "-"

-----------------------------------------------------------------------------
(* E-mail validation over all short strings *)

\* A label character, the separators of the pattern and a whitespace character.
EmailAlphabet == {"a", "@", ".", " "}
EmailStrings == UNION { [1..n -> EmailAlphabet] : n \in 0..MaxEmailLen }

\* The dialog was opened from t1, the phone field holds a valid number and the
\* user has typed some string into the e-mail field.
InitEmail ==
  /\ missing = {}
  /\ closeDisabled = FALSE
  /\ isOpen = TRUE
  /\ scrollLock = TRUE
  /\ ariaHidden = TRUE
  /\ openerBtn = "t1"
  /\ focusableElements = DialogOrder
  /\ firstFocusable = "close"
  /\ lastFocusable = "submit"
  /\ \E str \in EmailStrings : value = [ f \in Fields |-> IF f = "email" THEN str ELSE PhoneGood ]
  /\ error = [ f \in Fields |-> FALSE ]
  /\ msgShow = [ f \in Fields |-> FALSE ]
  /\ msgText = [ f \in Fields |-> "" ]
  /\ success = FALSE
  /\ focus = "email"
  /\ timers = << >>
  /\ defaultPrevented = FALSE
  /\ pendingDefault = "none"
  /\ lastEvent = "input"
  /\ openedBy = "t1"

NextEmail == lastEvent = "input" /\ Submit

SpecEmail == InitEmail /\ [][NextEmail]_vars

\* local@domain.tld: no whitespace, exactly one '@' that is not the first
\* character, and a '.' after it with at least one character on either side.
ShapeOk(v) ==
  LET ats == { i \in 1..Len(v) : v[i] = "@" }
  IN  /\ \A i \in 1..Len(v) : v[i] # " "
      /\ Cardinality(ats) = 1
      /\ \A i \in ats : i > 1 /\ \E j \in (i + 2)..(Len(v) - 1) : v[j] = "."

\* The value without the whitespace at its two ends.
Stripped(v) ==
  LET n == Len(v)
      lead == Cardinality({ i \in 1..n : \A k \in 1..i : v[k] = " " })
      trail == Cardinality({ i \in 1..n : \A k \in i..n : v[k] = " " })
  IN  IF lead = n THEN << >> ELSE [ i \in 1..(n - lead - trail) |-> v[lead + i] ]

\* C11 (as claimed): e-mail validation of a field succeeds exactly when the
\* field value has the shape local@domain.tld; a well-shaped address with
\* leading or trailing whitespace fails.
C11_EmailByShape ==
  lastEvent = "submit" => (success <=> ShapeOk(value["email"]))

\* C11 (amended): e-mail validation decides on the value with the whitespace at
\* its ends removed: it succeeds and leaves no error exactly when the trimmed
\* value has the shape local@domain.tld, and otherwise fails with the error
\* flag set, with 'Email is required' for an empty or whitespace-only value and
\* the rule-specific message otherwise.
C11_EmailByTrimmedShape ==
  lastEvent = "submit" =>
    LET v == value["email"]
    IN  /\ ShapeOk(Stripped(v)) =>
             (success /\ ~error["email"] /\ ~msgShow["email"])
        /\ ~ShapeOk(Stripped(v)) =>
             /\ ~success /\ error["email"] /\ msgShow["email"]
             /\ msgText["email"] = (IF Blank(v) THEN EmailRequired ELSE EmailInvalid)

\* C11 witness: a well-shaped address between two spaces was accepted.
C11_Witness ==
  /\ lastEvent = "submit" /\ success /\ ~error["email"]
  /\ Len(value["email"]) = MaxEmailLen
  /\ value["email"][1] = " " /\ value["email"][MaxEmailLen] = " "

-----------------------------------------------------------------------------
(* The public reset *)

\* C12: the public reset, in any state, leaves every field value empty, every
\* error flag and shown error message cleared and the success marker absent,
\* and leaves the open marker, the scroll lock, the aria-hidden marking, the
\* stored opener, the focus set with its boundaries, the keyboard focus and
\* the pending timers as they were.
C12_ResetFrame ==
  [][ lastEvent' = "reset" =>
        /\ \A f \in Fields : value'[f] = Empty /\ ~error'[f] /\ ~msgShow'[f]
        /\ ~success'
        /\ UNCHANGED << isOpen, scrollLock, ariaHidden, openerBtn,
                        focusableElements, firstFocusable, lastFocusable,
                        focus, timers, defaultPrevented >> ]_vars

\* C12 witness: a reset in an open modal, with the focus in the e-mail field,
\* has wiped a form that had shown both a required-field error and success.
C12_Witness ==
  /\ lastEvent = "reset" /\ isOpen /\ scrollLock /\ ariaHidden
  /\ focus = "email" /\ openerBtn = "t2"
  /\ Pristine
  /\ msgText["phone"] = PhoneRequired

-----------------------------------------------------------------------------
(* What opens and what closes the modal *)

OpeningEvents == {"triggerClick", "open"}
ClosingEvents == {"closeClick", "backdropClick", "Escape", "close"}
NeutralEvents == {"dialogClick", "Tab", "ShiftTab", "a", "nativeTab",
                  "focusChange", "input", "submit", "focusTimer",
                  "resetTimer", "reset", "host"}

\* C14: the modal goes from closed to open only in a trigger click or a public
\* open, and from open to closed only in a click on the close control, a click
\* whose target is the backdrop itself, an Escape keydown or a public close; a
\* click inside the dialog, a Tab or any other key, a native focus move, a
\* blur, an input, a submit and the firing of either timer never change the
\* open marker.
C14_OpenCloseCauses ==
  [][ /\ (~isOpen /\ isOpen') => lastEvent' \in OpeningEvents
      /\ (isOpen /\ ~isOpen') => lastEvent' \in ClosingEvents
      /\ lastEvent' \in NeutralEvents => isOpen' = isOpen ]_vars

\* C14 witness: a click inside the dialog, made after an error was shown, has
\* left the modal open.
C14_Witness ==
  /\ lastEvent = "dialogClick" /\ isOpen /\ scrollLock
  /\ error["phone"] /\ focus = "email"

-----------------------------------------------------------------------------
(* Keys the handler ignores *)

KeyEvents == {"Escape", "Tab", "ShiftTab", "a"}

\* C15: while the modal is closed a keydown of any key, Escape and Tab
\* included, changes no state, prevents no default action, moves no focus and
\* schedules no reset; while it is open a key other than Escape and Tab
\* changes nothing either.
C15_IgnoredKeys ==
  [][ (lastEvent' \in KeyEvents /\ (~isOpen \/ lastEvent' = "a")) =>
        /\ ~defaultPrevented'
        /\ UNCHANGED allButKey ]_vars

\* C15 witness: Escape was pressed on a closed modal that remembers an opener
\* other than the focused element, and no reset was scheduled.
C15_Witness ==
  /\ lastEvent = "Escape" /\ ~isOpen /\ ~defaultPrevented
  /\ timers = << >>
  /\ openerBtn = "t1" /\ focus = "t2"
  /\ value["phone"] = PhoneGood

-----------------------------------------------------------------------------
(* The deferred focus of openModal *)

\* The event loop runs every due timer callback, also when key events keep
\* arriving, and the browser completes the default action of a key event.
LoopFairness ==
  /\ SF_vars(\E i \in 1..MaxTimers : FocusTimer(i))
  /\ SF_vars(\E i \in 1..MaxTimers : ResetTimer(i))
  /\ WF_vars(NativeDefault)

\* The lifecycle without typing and submitting: opens, closes, resets, focus
\* moves by pointer and by Tab, host changes between opens, timer callbacks.
NextC13 ==
  \/ NextC4
  \/ HostToggleClose
  \/ \E el \in Triggers \cup {"close", "phone", "email", "submit"} : UserFocus(el)
  \/ \E shiftKey \in BOOLEAN : Keydown("Tab", shiftKey)
  \/ NativeDefault

SpecC13 == Init /\ [][NextC13]_vars /\ LoopFairness

FocusPending == \E i \in 1..Len(timers) : timers[i] = "focus"

\* C13 (as claimed): whenever the focus callback of an open runs, the focus set
\* being non-empty, the keyboard focus is afterwards on the first element of
\* the focus set.
C13_FocusOnFirstAfterDelay ==
  [][ (lastEvent' = "focusTimer" /\ focusableElements # << >>) =>
        focus' = focusableElements[1] ]_vars

\* C13 (amended): when the focus callback runs while the modal is open and the
\* focus set is non-empty, the keyboard focus is afterwards on the first
\* element of the current focus set, and nothing but the focus and the errors
\* raised by the blur it causes changes; and after every open that scheduled
\* it, the callback eventually runs.
C13_FocusOnFirstWhileOpen ==
  /\ [][ (lastEvent' = "focusTimer" /\ isOpen /\ focusableElements # << >>) =>
           /\ focus' = focusableElements[1]
           /\ Len(timers') = Len(timers) - 1
           /\ UNCHANGED << isOpen, scrollLock, ariaHidden, openerBtn,
                           focusableElements, firstFocusable, lastFocusable,
                           value, success >> ]_vars
  /\ ((lastEvent \in OpeningEvents /\ FocusPending) ~> (lastEvent = "focusTimer"))

\* C13 witness: the callback ran in an open modal whose close control is
\* disabled and took the focus from the e-mail field to the phone field.
C13_Witness ==
  /\ lastEvent = "focusTimer" /\ isOpen
  /\ closeDisabled /\ firstFocusable = "phone" /\ focus = "phone"
  /\ error["email"]

-----------------------------------------------------------------------------
(* When field errors appear and disappear *)

-----------------------------------------------------------------------------
(* The focus set while the modal is open *)

\* Position of a dialog element in document order.
Pos(el) == CHOOSE i \in 1..Len(DialogOrder) : DialogOrder[i] = el

\* The focusable elements inside the dialog; without the dialog element there
\* are none.  The page does not change while the modal is open, so these are
\* the elements the dialog contained at the most recent open.
InDialog(el) == Has("modal") /\ Focusable(el) /\ el \notin Triggers

\* C17: in every state in which the modal is open, the focus set lists exactly
\* the focusable elements the dialog contained at the most recent open, each
\* once and in document order; the trap boundaries are its first and its last
\* entry; and it is non-empty whenever the dialog contains an enabled close
\* control.
C17_FocusSetOfLastOpen ==
  isOpen =>
    LET n == Len(focusableElements)
    IN  /\ \A el \in {"close", "phone", "email", "submit"} :
             InDialog(el) <=> \E i \in 1..n : focusableElements[i] = el
        /\ \A i, j \in 1..n :
             i < j => Pos(focusableElements[i]) < Pos(focusableElements[j])
        /\ firstFocusable = (IF n = 0 THEN Null ELSE focusableElements[1])
        /\ lastFocusable = (IF n = 0 THEN Null ELSE focusableElements[n])
        /\ (InDialog("close") => n > 0)

\* C17 witness: the modal was opened again, the reset of the previous close
\* still pending, with the close control disabled: the set starts at the
\* phone field.
C17_Witness ==
  /\ isOpen /\ lastEvent \in OpeningEvents
  /\ timers = << "reset", "focus" >>
  /\ closeDisabled /\ Has("form")
  /\ firstFocusable = "phone" /\ lastFocusable = "submit"
  /\ Len(focusableElements) = 3

-----------------------------------------------------------------------------
(* Timer callbacks that outlive the state they were scheduled in *)

formState == << value, error, msgShow, success >>

\* C18 (as claimed): a deferred reset scheduled by an earlier close never takes
\* effect while the modal is open: the values, error flags and success marker
\* of the new open cycle are not erased by the pending timer.
C18_NoResetWhileOpen ==
  [][ (isOpen /\ lastEvent' = "resetTimer") => UNCHANGED formState ]_vars

\* C18 (amended): a deferred reset runs when its delay elapses whether the
\* modal is closed or has been opened again: it leaves every field empty,
\* every error flag and shown message cleared and the success marker absent,
\* consumes its timer, and changes nothing of the open marker, the scroll
\* lock, the aria-hidden marking, the opener, the focus set and the focus.
C18_ResetRunsRegardless ==
  [][ lastEvent' = "resetTimer" =>
        /\ Pristine'
        /\ Len(timers') = Len(timers) - 1
        /\ UNCHANGED << isOpen, scrollLock, ariaHidden, openerBtn,
                        focusableElements, firstFocusable, lastFocusable,
                        focus >> ]_vars

\* C18 witness: the reset of an earlier close fired in the re-opened modal and
\* erased the 'required' error shown by the e-mail field in the new cycle.
C18_Witness ==
  /\ lastEvent = "resetTimer" /\ isOpen /\ scrollLock
  /\ Pristine
  /\ msgText["phone"] = "" /\ msgText["email"] = EmailRequired
  /\ focus = "email"

\* C19: the deferred focus callback never moves the keyboard focus while the
\* modal is closed: after an open followed by a close within the open delay,
\* the focus stays where the close left it.
C19_NoFocusMoveWhileClosed ==
  [][ (~isOpen /\ lastEvent' = "focusTimer") => focus' = focus ]_vars

-----------------------------------------------------------------------------
(* The focus trap under repeated tabbing *)

TabEvents == {"Tab", "ShiftTab", "nativeTab"}

\* C20: while the modal is open and the keyboard focus is on an element of the
\* non-empty focus set, a Tab or Shift+Tab key press, wrapped by the handler
\* at the boundaries and followed by the browser's move to the next or
\* previous element elsewhere, leaves the focus on an element of the focus
\* set, so no sequence of such presses takes the focus out of the dialog.
C20_TabKeepsFocusInSet ==
  [][ ( /\ isOpen /\ lastEvent' \in TabEvents
        /\ \E i \in 1..Len(focusableElements) : focusableElements[i] = focus ) =>
        /\ isOpen'
        /\ focusableElements' = focusableElements
        /\ \E i \in 1..Len(focusableElements) : focusableElements[i] = focus' ]_vars

\* C20 witness: after an unprevented Tab or Shift+Tab the browser moved the
\* focus to the e-mail field, inside the full focus set.
C20_Witness ==
  /\ isOpen /\ lastEvent = "nativeTab" /\ pendingDefault = "none"
  /\ focus = "email" /\ value["email"] = EmailGood
  /\ Len(focusableElements) = 4

====
